---- MODULE Spec2Model ----
(***************************************************************************)
(* State-machine model of the semantic code index of auto-swe:             *)
(*   - pkg/db      DocumentDB  (bolt-backed keyed document store)          *)
(*   - pkg/index   Indexer     (UpdateIndex / indexFile / cleanup sweep)   *)
(* Strings that take part in prefix tests (paths, namespaces, document     *)
(* IDs, decimal numbers) are sequences of one-character strings, so that   *)
(* strings.HasPrefix and the byte order of bolt keys are computed, not     *)
(* assumed.                                                                *)
(***************************************************************************)
EXTENDS Integers, Sequences, FiniteSets, TLC

\* ------------------------------------------------------------------ bounds
MaxTime == 2        \* file modification times range over 0..MaxTime ticks
MaxLines == 1       \* a file has 1..MaxLines lines
MaxSummaries == 1   \* the summarizer returns at most this many entries
MaxPasses == 2      \* UpdateIndex passes in one behaviour
MaxFaults == 1      \* injected failures in one behaviour
MaxChanges == 1     \* file changes in one behaviour

\* ------------------------------------------------------- strings and order
Digits == <<"0", "1", "2", "3", "4", "5", "6", "7", "8", "9">>

RECURSIVE DecStr(_)
\* fmt.Sprintf("%d", n) for n >= 0
DecStr(n) ==
    IF n < 10 THEN <<Digits[n + 1]>>
    ELSE DecStr(n \div 10) \o <<Digits[(n % 10) + 1]>>

\* byte value of the characters the model uses (ASCII)
CharCode(c) ==
    CASE c = "#" -> 35 [] c = "." -> 46
      [] c = "0" -> 48 [] c = "1" -> 49 [] c = "2" -> 50 [] c = "3" -> 51
      [] c = "4" -> 52 [] c = "5" -> 53 [] c = "6" -> 54 [] c = "7" -> 55
      [] c = "8" -> 56 [] c = "9" -> 57 [] c = ":" -> 58
      [] c = "a" -> 97 [] c = "b" -> 98 [] c = "e" -> 101 [] c = "g" -> 103
      [] c = "k" -> 107 [] c = "o" -> 111 [] c = "p" -> 112 [] c = "r" -> 114
      [] c = "t" -> 116 [] c = "x" -> 120 [] c = "y" -> 121
      [] OTHER -> 127

RECURSIVE BytesLess(_, _)
\* bytes.Compare(a, b) < 0, the order of bolt keys
BytesLess(a, b) ==
    IF Len(b) = 0 THEN FALSE
    ELSE IF Len(a) = 0 THEN TRUE
    ELSE IF CharCode(Head(a)) # CharCode(Head(b))
         THEN CharCode(Head(a)) < CharCode(Head(b))
    ELSE BytesLess(Tail(a), Tail(b))

\* strings.HasPrefix(s, prefix)
HasPrefix(s, prefix) ==
    /\ Len(prefix) <= Len(s)
    /\ SubSeq(s, 1, Len(prefix)) = prefix

RECURSIVE SortedKeys(_)
\* the keys of a bucket in cursor order
SortedKeys(S) ==
    IF S = {} THEN <<>>
    ELSE LET m == CHOOSE x \in S : \A y \in S \ {x} : BytesLess(x, y)
         IN  <<m>> \o SortedKeys(S \ {m})

\* ------------------------------------------------------ names of the source
RepoNamespace == <<"r", "e", "p", "o">>
ExtraContextNamespace == <<"e", "x", "t", "r", "a">>
NoNamespace == <<>>

PathA == <<"a", ".", "g", "o">>
PathABak == <<"a", ".", "g", "o", ".", "b", "a", "k">>

\* files of the working directory, which is also the root of the repo tree
Paths == {PathA, PathABak}
\* base names that --extra-context may add to the virtual file system
ExtraPaths == {PathA}

\* ------------------------------------------------------------------- time
\* time.Time is counted in ticks; Unix() drops the sub-second part
TicksPerSecond == 2
\* first instant of year 10000, whose RFC3339 form has a five-digit year
YearTenThousand == MaxTime + 1
Times == 0..YearTenThousand

Unix(t) == t \div TicksPerSecond

\* t.Format(time.RFC3339): second precision; the year is printed with all
\* of its digits
FormatRFC3339(t) == [fiveDigitYear |-> t >= YearTenThousand, sec |-> Unix(t)]

\* time.Parse(time.RFC3339, s): a year that is not four digits is an error
ParseRFC3339(s) ==
    IF s.fiveDigitYear THEN [err |-> TRUE, unix |-> 0]
    ELSE [err |-> FALSE, unix |-> s.sec]

\* ------------------------------------------------------------------ files
FileInfos == [mtime : Times, lines : 1..MaxLines]

\* a file of n lines is n-1 newline bytes: len(strings.Split(s, "\n")) = n
FileSize(f) == f.lines - 1

FileTrees(P) == UNION {[D -> FileInfos] : D \in SUBSET P}

\* the virtual file system is filled once, at construction
VirtualInfo == [mtime |-> 0, lines |-> 1]
VirtualTrees == {[p \in D |-> VirtualInfo] : D \in SUBSET ExtraPaths}

LastDot(path) ==
    LET dots == {i \in 1..Len(path) : path[i] = "."}
    IN  IF dots = {} THEN 0 ELSE CHOOSE i \in dots : \A j \in dots : j <= i

\* filepath.Ext
Ext(path) ==
    IF LastDot(path) = 0 THEN <<>> ELSE SubSeq(path, LastDot(path), Len(path))

detectLanguage(path) ==
    LET ext == Ext(path)
    IN  CASE ext = <<".", "g", "o">> -> "Go"
          [] ext = <<".", "p", "y">> -> "Python"
          [] ext = <<".", "r", "b">> -> "Ruby"
          [] ext = <<".", "r", "s">> -> "Rust"
          [] ext = <<".", "c">> -> "C"
          [] OTHER -> "Unknown"

\* ------------------------------------------------------- document store
\* a Go map, or a bucket, with nothing in it
EmptyMap == [x \in {} |-> x]

\* ComputeID: idx < 0 is the file-level ID
ComputeID(namespace, path, idx) ==
    IF idx < 0 THEN namespace \o <<":">> \o path
    ELSE namespace \o <<":">> \o path \o <<"#">> \o DecStr(idx)

\* the embedding capability: a fixed function of the text
EmbedText(content) == IF content = "" THEN <<0, 0>> ELSE <<1, 0>>

\* what AddDocument marshals under doc.ID
Stored(doc, vector) ==
    [ID |-> doc.ID, Content |-> doc.Content, Metadata |-> doc.Metadata,
     Vector |-> vector]

\* b.Put(key, data)
BucketPut(db, doc) ==
    [k \in DOMAIN db \cup {doc.ID} |-> IF k = doc.ID THEN doc ELSE db[k]]

\* b.Delete(key) for every key of K
BucketDelete(db, K) == [k \in DOMAIN db \ K |-> db[k]]

\* AddDocument without its check of doc.ID
AddDocumentNoIDCheck(db, doc, embedFails, updateFails) ==
    IF embedFails THEN [err |-> "embedding", db |-> db, embedded |-> 1]
    ELSE IF updateFails THEN [err |-> "store", db |-> db, embedded |-> 1]
    ELSE [err |-> "nil", embedded |-> 1,
          db |-> BucketPut(db, Stored(doc, EmbedText(doc.Content)))]

\* AddDocument(doc): embedFails is the outcome of the embedding round trip,
\* updateFails the outcome of the bolt transaction
AddDocument(db, doc, embedFails, updateFails) ==
    IF doc.ID = <<>> THEN [err |-> "empty id", db |-> db, embedded |-> 0]
    ELSE IF embedFails THEN [err |-> "embedding", db |-> db, embedded |-> 1]
    ELSE IF updateFails THEN [err |-> "store", db |-> db, embedded |-> 1]
    ELSE [err |-> "nil", embedded |-> 1,
          db |-> BucketPut(db, Stored(doc, EmbedText(doc.Content)))]

\* GetDocument(id): b.Get gives nil for a missing key
GetDocument(db, id) ==
    IF id \in DOMAIN db THEN [err |-> "nil", doc |-> db[id]]
    ELSE [err |-> "ErrNotFound", doc |-> [ID |-> <<>>, Content |-> ""]]

\* DeleteDocument that does not reach the bucket
DeleteDocumentKeepsKey(db, id) == db

\* DeleteDocument(id)
DeleteDocument(db, id) == BucketDelete(db, {id})

RECURSIVE CursorWhilePrefix(_, _, _)
\* c.Next() while strings.HasPrefix(k, prefix)
CursorWhilePrefix(keys, i, prefix) ==
    IF i > Len(keys) \/ ~HasPrefix(keys[i], prefix) THEN <<>>
    ELSE <<keys[i]>> \o CursorWhilePrefix(keys, i + 1, prefix)

\* c.Seek(prefix): index of the first key >= prefix
CursorSeek(keys, prefix) ==
    LET ge == {i \in 1..Len(keys) : ~BytesLess(keys[i], prefix)}
    IN  IF ge = {} THEN Len(keys) + 1
        ELSE CHOOSE i \in ge : \A j \in ge : i <= j

\* the keys the Seek/Next loop of the two prefix operations visits
PrefixScan(db, prefix) ==
    LET keys == SortedKeys(DOMAIN db)
    IN  CursorWhilePrefix(keys, CursorSeek(keys, prefix), prefix)

SeqRange(s) == {s[i] : i \in 1..Len(s)}

\* a prefix delete whose cursor steps over the key after each deleted one
DeleteDocumentsWithPrefixSkips(db, prefix) ==
    LET ks == PrefixScan(db, prefix)
    IN  BucketDelete(db, {ks[i] : i \in {j \in 1..Len(ks) : j % 2 = 1}})

DeleteDocumentsWithPrefix(db, prefix) ==
    BucketDelete(db, SeqRange(PrefixScan(db, prefix)))

GetDocumentsWithPrefix(db, prefix) ==
    LET ks == PrefixScan(db, prefix) IN [i \in 1..Len(ks) |-> db[ks[i]]]

\* doc.Metadata[k] of a Go map: the empty string when the key is missing
MetaGet(m, k) == IF k \in DOMAIN m THEN m[k] ELSE ""

\* the match loop of FilterDocuments and Query: doc.Metadata[k] != v
MatchesFilters(doc, filters) ==
    \A k \in DOMAIN filters : MetaGet(doc.Metadata, k) = filters[k]

\* FilterDocuments(filters), in ForEach (key) order
FilterDocuments(db, filters) ==
    LET keys == SortedKeys(DOMAIN db)
    IN  SelectSeq([i \in 1..Len(keys) |-> db[keys[i]]],
                  LAMBDA d : MatchesFilters(d, filters))

Count(db) == Cardinality(DOMAIN db)

\* math.Sqrt on the squares the model's vectors give
Sqrt(n) == CHOOSE r \in 0..n : r * r = n

\* a similarity of 1.0, similarities being counted in tenths
SimilarityUnit == 10

\* cosineSimilarity(a, b); the model's vectors are zero or unit vectors, so
\* the quotient is a whole number
cosineSimilarity(a, b) ==
    IF Len(a) # Len(b) THEN -SimilarityUnit
    ELSE LET sum[i \in 0..Len(a)] ==
                 IF i = 0 THEN [dot |-> 0, normA |-> 0, normB |-> 0]
                 ELSE [dot |-> sum[i - 1].dot + a[i] * b[i],
                       normA |-> sum[i - 1].normA + a[i] * a[i],
                       normB |-> sum[i - 1].normB + b[i] * b[i]]
             t == sum[Len(a)]
         IN  IF t.normA = 0 \/ t.normB = 0 THEN 0
             ELSE (t.dot * SimilarityUnit)
                     \div (Sqrt(t.normA) * Sqrt(t.normB))

\* the ForEach loop of Query: the matching documents in key order, each with
\* its similarity to the query vector
ScanResults(db, filters, queryVector) ==
    LET docs == FilterDocuments(db, filters)
    IN  [i \in 1..Len(docs) |->
            [Document |-> docs[i],
             Similarity |-> cosineSimilarity(queryVector, docs[i].Vector)]]

RECURSIVE InsertionSort(_, _)
\* insertionSort of package sort with less(i, j) = Similarity[i] >
\* Similarity[j]: element n moves left past the elements it is less than
InsertionSort(data, n) ==
    IF n = 0 THEN <<>>
    ELSE LET done == InsertionSort(data, n - 1)
             x == data[n]
             keep == {i \in 1..Len(done) : done[i].Similarity >= x.Similarity}
             at == IF keep = {} THEN 0
                   ELSE CHOOSE i \in keep : \A j \in keep : j <= i
         IN  SubSeq(done, 1, at) \o <<x>> \o SubSeq(done, at + 1, Len(done))

\* the longest slice sort.Slice sorts by insertion alone
MaxInsertion == 12

\* less(i, j) of Query and SearchSimilar
Less(data, i, j) == data[i].Similarity > data[j].Similarity

\* data.Swap(i, j)
Swap(data, i, j) ==
    [n \in 1..Len(data) |->
        IF n = i THEN data[j] ELSE IF n = j THEN data[i] ELSE data[n]]

\* order2 of package sort: the two indices in order, and the swaps counted
Order2(data, x, y, swaps) ==
    IF Less(data, y, x) THEN [lo |-> y, hi |-> x, swaps |-> swaps + 1]
    ELSE [lo |-> x, hi |-> y, swaps |-> swaps]

\* choosePivot for a slice of 8 to 49 elements: the median of the elements
\* at the three quarter points (indices from 1)
ChoosePivot(data) ==
    LET l == Len(data)
        i == 1 + (l \div 4)
        j == 1 + (l \div 4) * 2
        k == 1 + (l \div 4) * 3
        o1 == Order2(data, i, j, 0)
        o2 == Order2(data, o1.hi, k, o1.swaps)
        o3 == Order2(data, o1.lo, o2.lo, o2.swaps)
    IN  [pivot |-> o3.hi, increasing |-> o3.swaps = 0]

RECURSIVE PartitionLoop(_, _, _)
\* the loops of partition, the pivot being at index 1: i runs right over the
\* elements less than the pivot, j left over the others, and the two where
\* they stop are swapped
PartitionLoop(data, i, j) ==
    LET stopI == {n \in i..j : ~Less(data, n, 1)}
        i2 == IF stopI = {} THEN j + 1
              ELSE CHOOSE n \in stopI : \A m \in stopI : n <= m
        stopJ == {n \in i2..j : Less(data, n, 1)}
        j2 == IF stopJ = {} THEN i2 - 1
              ELSE CHOOSE n \in stopJ : \A m \in stopJ : m <= n
    IN  IF i2 > j2 THEN [data |-> Swap(data, j2, 1), mid |-> j2]
        ELSE PartitionLoop(Swap(data, i2, j2), i2 + 1, j2 - 1)

\* partition(data, a, b, pivot) on the whole slice
Partition(data, pivot) == PartitionLoop(Swap(data, 1, pivot), 2, Len(data))

\* pdqsort on a slice of more than MaxInsertion elements, as far as the
\* first partition: a slice found in order is left as it is, otherwise the
\* pivot is swapped to the front, the slice is partitioned around it and the
\* two parts, which are at most MaxInsertion long for the slices of the
\* model, are sorted by insertion
PdqSort(data) ==
    LET c == ChoosePivot(data)
        inOrder == \A n \in 2..Len(data) : ~Less(data, n, n - 1)
        p == Partition(data, c.pivot)
        left == SubSeq(p.data, 1, p.mid - 1)
        right == SubSeq(p.data, p.mid + 1, Len(data))
    IN  IF c.increasing /\ inOrder THEN data
        ELSE InsertionSort(left, Len(left)) \o <<p.data[p.mid]>>
                \o InsertionSort(right, Len(right))

\* sort.Slice(results, Similarity descending)
SortSlice(results) ==
    IF Len(results) <= MaxInsertion
    THEN InsertionSort(results, Len(results))
    ELSE PdqSort(results)

\* results[:limit] after limit was cut down to len(results)
Truncate(results, limit) ==
    SubSeq(results, 1, IF limit > Len(results) THEN Len(results) ELSE limit)

\* Query(queryContent, limit, filters)
Query(db, queryContent, limit, filters) ==
    Truncate(SortSlice(ScanResults(db, filters, EmbedText(queryContent))),
             limit)

\* SearchSimilar(queryContent, k): every document is ranked
SearchSimilar(db, queryContent, k) ==
    LET r == Truncate(SortSlice(ScanResults(db, EmptyMap,
                                            EmbedText(queryContent))), k)
    IN  [i \in 1..Len(r) |-> r[i].Document]

\* Indexer.Search: the limit is cut down to Count(), the markers are
\* filtered out
Search(db, query, queryLimit) ==
    Query(db, query,
          IF queryLimit > Count(db) THEN Count(db) ELSE queryLimit,
          [is_file_entry |-> "false"])

\* the function BatchAddDocuments hands to db.Batch, run in one transaction:
\* the first document with an empty ID or a failing embedding ends it
BatchFn(db, docs, embedFailAt) ==
    LET bad == {i \in 1..Len(docs) : docs[i].ID = <<>> \/ i = embedFailAt}
        put[i \in 0..Len(docs)] ==
            IF i = 0 THEN db
            ELSE BucketPut(put[i - 1],
                           Stored(docs[i], EmbedText(docs[i].Content)))
    IN  IF bad # {} THEN [err |-> "document", db |-> db]
        ELSE [err |-> "nil", db |-> put[Len(docs)]]

\* BatchAddDocuments: db.Batch runs the function in a transaction it rolls
\* back on an error, and then runs a failed function once more in a
\* transaction of its own (soloFailAt: the embedding failing in that run);
\* updateFails is the failure of the commit
BatchAddDocuments(db, docs, embedFailAt, soloFailAt, updateFails) ==
    LET first == BatchFn(db, docs, embedFailAt)
        run == IF first.err = "nil" THEN first
               ELSE BatchFn(db, docs, soloFailAt)
    IN  IF run.err # "nil" THEN [err |-> "document", db |-> db]
        ELSE IF updateFails THEN [err |-> "store", db |-> db]
        ELSE [err |-> "nil", db |-> run.db]

\* ------------------------------------------------------ the query pipeline
contextLines == 5
\* a threshold no wider than the context of one snippet
mergeThresholdNarrow == contextLines
mergeThreshold == 10
\* the token budget of collectSnippets
MaxTokens == 32000
\* the limit Indexer.Query hands to Search
SearchLimit == 30
NoRelevantCode == "No relevant code found in the codebase for this query."

\* the similarity 0.4 is not good enough
filterResultsAboveOnly(results) ==
    LET goodResults ==
            SelectSeq(results,
                      LAMBDA r : 10 * r.Similarity > 4 * SimilarityUnit)
        lowSimilarityResults ==
            SelectSeq(results,
                      LAMBDA r : 10 * r.Similarity <= 4 * SimilarityUnit)
        needed == IF 3 - Len(goodResults) > Len(lowSimilarityResults)
                  THEN Len(lowSimilarityResults)
                  ELSE 3 - Len(goodResults)
        filtered == IF Len(goodResults) < 3 /\ Len(lowSimilarityResults) > 0
                    THEN goodResults \o SubSeq(lowSimilarityResults, 1, needed)
                    ELSE goodResults
    IN  IF Len(filtered) > 20 THEN SubSeq(filtered, 1, 20) ELSE filtered

\* filterResults: the results of similarity >= 0.4, filled up to three with
\* the first of the others, at most twenty
filterResults(results) ==
    LET goodResults ==
            SelectSeq(results,
                      LAMBDA r : 10 * r.Similarity >= 4 * SimilarityUnit)
        lowSimilarityResults ==
            SelectSeq(results,
                      LAMBDA r : 10 * r.Similarity < 4 * SimilarityUnit)
        needed == IF 3 - Len(goodResults) > Len(lowSimilarityResults)
                  THEN Len(lowSimilarityResults)
                  ELSE 3 - Len(goodResults)
        filtered == IF Len(goodResults) < 3 /\ Len(lowSimilarityResults) > 0
                    THEN goodResults \o SubSeq(lowSimilarityResults, 1, needed)
                    ELSE goodResults
    IN  IF Len(filtered) > 20 THEN SubSeq(filtered, 1, 20) ELSE filtered

DigitValue(c) == CHOOSE d \in 0..9 : Digits[d + 1] = c

RECURSIVE AtoiDigits(_)
AtoiDigits(s) ==
    IF Len(s) = 0 THEN 0
    ELSE 10 * AtoiDigits(SubSeq(s, 1, Len(s) - 1)) + DigitValue(s[Len(s)])

\* strconv.Atoi on the unsigned decimal strings of the model
Atoi(s) ==
    IF Len(s) = 0 \/ \E i \in 1..Len(s) : s[i] \notin SeqRange(Digits)
    THEN [err |-> TRUE, n |-> 0]
    ELSE [err |-> FALSE, n |-> AtoiDigits(s)]

\* len(strings.Split(id, "#"))
SplitParts(id) == Cardinality({i \in 1..Len(id) : id[i] = "#"}) + 1

\* the first loop of collectSnippets on one result: the result is skipped
\* unless its ID has two parts and both line numbers parse
ResultRange(result) ==
    LET m == result.Document.Metadata
        get(k) == IF k \in DOMAIN m THEN m[k] ELSE <<>>
        startLine == Atoi(get("start_line"))
        endLine == Atoi(get("end_line"))
    IN  [ok |-> /\ SplitParts(result.Document.ID) = 2
                /\ ~startLine.err
                /\ ~endLine.err,
         range |-> [startLine |-> startLine.n, endLine |-> endLine.n,
                    path |-> get("path"), namespace |-> get("namespace")]]

\* fileRanges: <<namespace, path>> -> the ranges of its results, in result
\* order
GroupRanges(results) ==
    LET valid == SelectSeq(results, LAMBDA r : ResultRange(r).ok)
        key(r) == <<ResultRange(r).range.namespace, ResultRange(r).range.path>>
        keys == {key(valid[i]) : i \in 1..Len(valid)}
    IN  [k \in keys |->
            LET mine == SelectSeq(valid, LAMBDA r : key(r) = k)
            IN  [i \in 1..Len(mine) |-> ResultRange(mine[i]).range]]

RECURSIVE SortByStartLine(_, _)
\* sort.Slice with less(i, j) = startLine[i] < startLine[j] on a slice of at
\* most MaxInsertion elements: insertion sort, which leaves ranges of one
\* start line in their input order
SortByStartLine(ranges, n) ==
    IF n = 0 THEN <<>>
    ELSE LET done == SortByStartLine(ranges, n - 1)
             x == ranges[n]
             keep == {i \in 1..Len(done) : done[i].startLine <= x.startLine}
             at == IF keep = {} THEN 0
                   ELSE CHOOSE i \in keep : \A j \in keep : j <= i
         IN  SubSeq(done, 1, at) \o <<x>> \o SubSeq(done, at + 1, Len(done))

\* mergeRanges: a range that starts within mergeThreshold lines of the end
\* of the current one gives the current one its end line
mergeRanges(ranges) ==
    IF Len(ranges) = 0 THEN <<>>
    ELSE LET sorted == SortByStartLine(ranges, Len(ranges))
             step[i \in 1..Len(sorted)] ==
                 IF i = 1 THEN [mergedRanges |-> <<>>, current |-> sorted[1]]
                 ELSE LET p == step[i - 1]
                          r == sorted[i]
                      IN  IF r.startLine <= p.current.endLine + mergeThreshold
                          THEN [mergedRanges |-> p.mergedRanges,
                                current |-> [p.current EXCEPT
                                                !.endLine = r.endLine]]
                          ELSE [mergedRanges |->
                                    Append(p.mergedRanges, p.current),
                                current |-> r]
             last == step[Len(sorted)]
         IN  Append(last.mergedRanges, last.current)

\* the lines the ranges include
IncludedLines(ranges) ==
    UNION {ranges[i].startLine..ranges[i].endLine : i \in 1..Len(ranges)}

\* a promotion at half of the lines already
shouldIncludeWholeFileAtHalf(ranges, totalLines) ==
    /\ Len(ranges) # 0
    /\ Cardinality(IncludedLines(ranges)) >= totalLines \div 2

shouldIncludeWholeFile(ranges, totalLines) ==
    /\ Len(ranges) # 0
    /\ Cardinality(IncludedLines(ranges)) > totalLines \div 2

\* strings.Split(string(content), "\n"): the i-th line is named by i
FileLines(info) == [i \in 1..info.lines |-> i]

\* extractSnippet on a file of info.lines lines of info.width bytes each:
\* the slice expression lines[contextStart-1:contextEnd] panics when its
\* low bound is above its high bound
extractSnippet(info, r) ==
    LET contextStart == IF r.startLine - contextLines < 1 THEN 1
                        ELSE r.startLine - contextLines
        contextEnd == IF r.endLine + contextLines > info.lines
                      THEN info.lines
                      ELSE r.endLine + contextLines
        n == contextEnd - contextStart + 1
        snippetLen == IF n <= 0 THEN 0 ELSE n * info.width + (n - 1)
        panic == contextStart - 1 > contextEnd
    IN  [panic |-> panic,
         example |-> [Path |-> r.path, StartLine |-> contextStart,
                      EndLine |-> contextEnd,
                      Content |-> IF panic THEN <<>>
                                  ELSE SubSeq(FileLines(info), contextStart,
                                              contextEnd),
                      Namespace |-> r.namespace],
         tokenEstimate |-> snippetLen \div 4]

RECURSIVE ExtractRanges(_, _, _, _)
\* the loop over the merged ranges of one file: it ends at the first
\* snippet that does not fit the budget; log is the calls of extractSnippet
\* in the order they were made
ExtractRanges(info, mergedRanges, i, acc) ==
    IF i > Len(mergedRanges) THEN acc
    ELSE LET x == extractSnippet(info, mergedRanges[i])
             fits == acc.totalTokens + x.tokenEstimate <= MaxTokens
             logged == [acc EXCEPT !.log =
                           Append(@, [range |-> mergedRanges[i],
                                      totalLines |-> info.lines,
                                      panic |-> x.panic,
                                      example |-> x.example,
                                      tokenEstimate |-> x.tokenEstimate,
                                      retained |-> ~x.panic /\ fits])]
         IN  IF x.panic THEN [logged EXCEPT !.panic = TRUE]
             ELSE IF ~fits THEN logged
             ELSE ExtractRanges(info, mergedRanges, i + 1,
                      [logged EXCEPT !.examples = Append(@, x.example),
                                     !.totalTokens = @ + x.tokenEstimate])

\* the body of the loop over the files for the file of key k
CollectFile(fss, k, ranges, acc) ==
    IF k[1] \notin DOMAIN fss THEN acc
    ELSE IF k[2] \notin DOMAIN fss[k[1]] THEN acc
    ELSE LET info == fss[k[1]][k[2]]
             mergedRanges == mergeRanges(ranges)
             whole == shouldIncludeWholeFile(mergedRanges, info.lines)
             taken == IF whole
                      THEN <<[startLine |-> 1, endLine |-> info.lines,
                              path |-> ranges[1].path,
                              namespace |-> ranges[1].namespace]>>
                      ELSE mergedRanges
             seen == [acc EXCEPT !.files =
                         Append(@, [namespace |-> k[1], path |-> k[2],
                                    totalLines |-> info.lines,
                                    ranges |-> ranges,
                                    mergedRanges |-> mergedRanges,
                                    taken |-> taken])]
         IN  ExtractRanges(info, taken, 1, seen)

\* the orders in which the two range loops over the maps of fileRanges can
\* go through the keys: the files of one namespace follow one another
WalkOrders(keys) ==
    {o \in [1..Cardinality(keys) -> keys] :
        /\ \A k \in keys : \E i \in DOMAIN o : o[i] = k
        /\ \A i, j, l \in DOMAIN o :
              (i < j /\ j < l /\ o[i][1] = o[l][1]) => o[j][1] = o[i][1]}

\* collectSnippets, the maps ranged over in the given order
collectSnippets(results, fss, order) ==
    LET fileRanges == GroupRanges(results)
        run[i \in 0..Len(order)] ==
            IF i = 0 THEN [examples |-> <<>>, totalTokens |-> 0,
                           panic |-> FALSE, files |-> <<>>, log |-> <<>>]
            ELSE IF run[i - 1].panic THEN run[i - 1]
            ELSE CollectFile(fss, order[i], fileRanges[order[i]], run[i - 1])
    IN  run[Len(order)]

\* Indexer.Query: searchFails is an error of Count or of the embedding of
\* the query, reply what the answer model returns
IndexerQuery(db, fss, query, searchFails, order, reply) ==
    LET filteredResults == filterResults(Search(db, query, SearchLimit))
        c == collectSnippets(filteredResults, fss, order)
        none == [err |-> "nil", answer |-> "", generated |-> 0,
                 panic |-> FALSE, filtered |-> filteredResults,
                 files |-> <<>>]
    IN  IF searchFails
        THEN [none EXCEPT !.err = "search failed", !.filtered = <<>>]
        ELSE IF Len(filteredResults) = 0
             THEN [none EXCEPT !.answer = NoRelevantCode]
        ELSE IF c.panic
             THEN [none EXCEPT !.err = "panic", !.panic = TRUE,
                               !.files = c.files]
        ELSE IF reply.err
             THEN [none EXCEPT !.err = "failed to generate answer",
                               !.generated = 1, !.files = c.files]
        ELSE [none EXCEPT !.answer = reply.text, !.generated = 1,
                          !.files = c.files]

\* ------------------------------------------------------------ the indexer
VARIABLES
    files,        \* working directory: path -> [mtime, lines]; the repo tree
    extra,        \* the virtual file system of the "extra" namespace
    store,        \* the documents bucket: ID -> document
    pc,           \* position of the caller: idle, walk, marker, summaries, done
    passes,       \* UpdateIndex calls started
    nsLeft,       \* namespaces the range over i.fss has not reached yet
    ns,           \* namespace being walked
    visit,        \* <<namespace, path>> -> what the walk callback did with it
    cur,          \* the file indexFile is working on
    result,       \* what UpdateIndex returned: none, ok, error
    touched,      \* IDs put or deleted since the pass started
    countAtStart, \* Count() when the pass started
    storeFailed,  \* a store transaction of the walk failed during the pass
    repeat,       \* the pass started right after a pass that returned nil
    retry,        \* files the pass before failed to summarize or embed
    oldDocs,      \* the file's prefix scan when indexFile started
    preSweep,     \* the store when CleanupDeletedFiles started
    observed,     \* what a concurrent GetDocumentsWithPrefix returned
    faults,       \* failures of the file system, the store and the models
    changes,      \* file changes made by the environment
    call,         \* the last DocumentDB call of the store behaviours
    prevStore,    \* the store before that call
    added         \* ID -> the document last added and not deleted since

vars == <<files, extra, store, pc, passes, nsLeft, ns, visit, cur, result,
          touched, countAtStart, storeFailed, repeat, retry, oldDocs,
          preSweep, observed, faults, changes, call, prevStore, added>>

passVars == <<pc, passes, nsLeft, ns, visit, cur, result, touched,
              countAtStart, storeFailed, repeat, retry, oldDocs,
              preSweep>>
dbVars == <<call, prevStore, added>>

NoFile == [namespace |-> NoNamespace, path |-> <<>>]
NoCall == [op |-> "none"]
NoRead == [prefix |-> <<>>, docs |-> <<>>]

\* i.fss: "repo" always, "extra" when extra context files were given
Fss ==
    IF DOMAIN extra = {} THEN (RepoNamespace :> files)
    ELSE (RepoNamespace :> files) @@ (ExtraContextNamespace :> extra)

\* the summarizer's reply: a failure, or up to MaxSummaries entries with
\* arbitrary line numbers; the text of an entry can be empty
SummaryEntries ==
    [summary : {"s"}, start_line : 0..(MaxLines + 1),
     end_line : 0..(MaxLines + 1)] \cup
    [summary : {""}, start_line : {1}, end_line : 1..MaxLines]
SummarizerReplies ==
    {[err |-> TRUE, summaries |-> <<>>]} \cup
    {[err |-> FALSE, summaries |-> s] :
        s \in UNION {[1..n -> SummaryEntries] : n \in 0..MaxSummaries}}

\* ExtractFileSummaries: os.ReadFile(path), the model call, validation
ExtractFileSummaries(info, readFails, reply) ==
    LET invalid == {i \in 1..Len(reply.summaries) :
                       \/ reply.summaries[i].start_line < 1
                       \/ reply.summaries[i].end_line
                            < reply.summaries[i].start_line
                       \/ reply.summaries[i].end_line > info.lines}
    IN  IF readFails THEN [err |-> "read", summaries |-> <<>>]
        ELSE IF reply.err THEN [err |-> "generate", summaries |-> <<>>]
        ELSE IF Len(reply.summaries) = 0
             THEN [err |-> "no summaries", summaries |-> <<>>]
        ELSE IF invalid # {}
             THEN [err |-> "invalid line range", summaries |-> <<>>]
        ELSE [err |-> "nil", summaries |-> reply.summaries]

\* needsReindexing: getFails is a GetDocument error other than ErrNotFound
needsReindexing(db, namespace, path, info, getFails) ==
    LET fileID == ComputeID(namespace, path, -1)
    IN  IF getFails \/ fileID \notin DOMAIN db
        THEN [needs |-> TRUE, err |-> FALSE]
        ELSE LET lastModTime == ParseRFC3339(db[fileID].Metadata.mod_time)
             IN  IF lastModTime.err THEN [needs |-> TRUE, err |-> TRUE]
                 ELSE [needs |-> Unix(info.mtime) > lastModTime.unix,
                       err |-> FALSE]

\* indexFile writes every document under this namespace
indexFileNamespace(namespace) == RepoNamespace

\* the file-level entry of indexFile
fileDoc(namespace, path, info) ==
    [ID |-> ComputeID(indexFileNamespace(namespace), path, -1),
     Content |-> "",
     Metadata |-> [path |-> path,
                   language |-> detectLanguage(path),
                   mod_time |-> FormatRFC3339(info.mtime),
                   size |-> DecStr(FileSize(info)),
                   is_file_entry |-> "true",
                   namespace |-> indexFileNamespace(namespace)]]

\* the summary documents of indexFile, idx counted from 0
summaryDocs(namespace, path, info, summaries) ==
    [i \in 1..Len(summaries) |->
        [ID |-> ComputeID(indexFileNamespace(namespace), path, i - 1),
         Content |-> summaries[i].summary,
         Metadata |-> [path |-> path,
                       language |-> detectLanguage(path),
                       mod_time |-> FormatRFC3339(info.mtime),
                       size |-> DecStr(FileSize(info)),
                       start_line |-> DecStr(summaries[i].start_line),
                       end_line |-> DecStr(summaries[i].end_line),
                       is_file_entry |-> "false",
                       namespace |-> indexFileNamespace(namespace)]]]

\* GetIndexedFiles: the FileRef of every file-level entry
GetIndexedFiles(db) ==
    LET docs == FilterDocuments(db, [is_file_entry |-> "true"])
    IN  [i \in 1..Len(docs) |->
            [namespace |-> docs[i].Metadata.namespace,
             path |-> docs[i].Metadata.path]]

RECURSIVE SweepFrom(_, _, _, _, _)
\* the loop of CleanupDeletedFiles over refs[i..]; deleteFails is the set of
\* positions whose delete transaction fails (logged, the loop goes on)
SweepFrom(db, fss, refs, i, deleteFails) ==
    IF i > Len(refs) THEN db
    ELSE LET ref == refs[i]
             gone == /\ ref.namespace \in DOMAIN fss
                     /\ ref.path \notin DOMAIN fss[ref.namespace]
                     /\ i \notin deleteFails
             prefix == ComputeID(ref.namespace, ref.path, -1)
         IN  SweepFrom(IF gone THEN DeleteDocumentsWithPrefix(db, prefix)
                       ELSE db,
                       fss, refs, i + 1, deleteFails)

\* CleanupDeletedFiles: filterFails is a failure of GetIndexedFiles
CleanupDeletedFiles(db, fss, filterFails, deleteFails) ==
    IF filterFails THEN db
    ELSE SweepFrom(db, fss, GetIndexedFiles(db), 1, deleteFails)

\* fs.WalkDir order: os.DirFS lists a directory sorted by name, the virtual
\* file system lists its map in any order
WalkNext(namespace) ==
    LET todo == {p \in DOMAIN Fss[namespace] :
                    <<namespace, p>> \notin DOMAIN visit}
    IN  IF namespace = RepoNamespace
        THEN {p \in todo : \A q \in todo \ {p} : BytesLess(p, q)}
        ELSE todo

WalkComplete == IF ns = NoNamespace THEN TRUE ELSE WalkNext(ns) = {}

NoTime == [fiveDigitYear |-> FALSE, sec |-> 0]

\* what the callback saw and did: the marker it found (hadMarker, recorded),
\* the file's time, the verdict of needsReindexing, the outcome, and the
\* summaries indexFile stored when it returned nil
Visited(outcome, r, fault, namespace, p) ==
    LET fileID == ComputeID(namespace, p, -1)
    IN  [outcome |-> outcome, fault |-> fault, needs |-> r.needs,
         err |-> r.err,
         hadMarker |-> fileID \in DOMAIN store,
         recorded |-> IF fileID \in DOMAIN store
                      THEN store[fileID].Metadata.mod_time ELSE NoTime,
         mtime |-> Fss[namespace][p].mtime,
         order |-> Cardinality(DOMAIN visit) + 1,
         summaries |-> <<>>,
         failure |-> "none"]

\* a callback that hands the error of indexFile to WalkDir
walkFuncReturnsIndexErr(indexErr) == IF indexErr THEN "err" ELSE "nil"

\* the callback's return value after indexFile: the error is logged and the
\* walk goes on
walkFuncReturn(indexErr) == "nil"

\* the callback returned: WalkDir goes on, or UpdateIndex returns its error
Returned(indexErr) ==
    IF walkFuncReturn(indexErr) = "nil"
    THEN pc' = "walk" /\ UNCHANGED result
    ELSE pc' = "done" /\ result' = "callback error"

SetOutcome(outcome) ==
    [visit EXCEPT ![<<cur.namespace, cur.path>>].outcome = outcome]

\* indexFile returned the error of ExtractFileSummaries or BatchAddDocuments
SetFailure(fault) ==
    [visit EXCEPT ![<<cur.namespace, cur.path>>].outcome = "failed",
                  ![<<cur.namespace, cur.path>>].failure = fault]

\* a failure is injected only while the budget lasts
Inject(fault) ==
    IF fault = "none" THEN UNCHANGED faults
    ELSE faults < MaxFaults /\ faults' = faults + 1

\* store failures of the walk: the staleness lookup, the prefix delete, the
\* marker write, the batch insert
StoreFaults == {"get", "delete", "update"}

\* ---------------------------------------------------------------- actions
Init ==
    /\ files \in FileTrees(Paths)
    /\ extra \in VirtualTrees
    /\ store = EmptyMap
    /\ pc = "idle"
    /\ passes = 0
    /\ nsLeft = {}
    /\ ns = NoNamespace
    /\ visit = EmptyMap
    /\ cur = NoFile
    /\ result = "none"
    /\ touched = {}
    /\ countAtStart = 0
    /\ storeFailed = FALSE
    /\ repeat = FALSE
    /\ retry = {}
    /\ oldDocs = <<>>
    /\ preSweep = EmptyMap
    /\ observed = NoRead
    /\ faults = 0
    /\ changes = 0
    /\ call = NoCall
    /\ prevStore = EmptyMap
    /\ added = EmptyMap

\* the caller is back at rest and what the last pass did is forgotten
Forget ==
    /\ pc' = "idle"
    /\ nsLeft' = {}
    /\ ns' = NoNamespace
    /\ visit' = EmptyMap
    /\ cur' = NoFile
    /\ result' = "none"
    /\ touched' = {}
    /\ countAtStart' = 0
    /\ storeFailed' = FALSE
    /\ repeat' = FALSE
    /\ retry' = {}
    /\ oldDocs' = <<>>
    /\ preSweep' = EmptyMap
    /\ observed' = NoRead

\* the environment writes (creates, edits, touches) a file between passes
WriteFile(p, info) ==
    /\ pc \in {"idle", "done"}
    /\ passes < MaxPasses
    /\ changes < MaxChanges
    /\ passes > 0
    /\ (IF p \in DOMAIN files THEN files[p] # info ELSE TRUE)
    /\ files' = [q \in DOMAIN files \cup {p} |->
                    IF q = p THEN info ELSE files[q]]
    /\ changes' = changes + 1
    /\ Forget
    /\ UNCHANGED <<extra, store, passes, faults>>
    /\ UNCHANGED dbVars

\* the environment removes a file between passes
RemoveFile(p) ==
    /\ pc \in {"idle", "done"}
    /\ passes < MaxPasses
    /\ changes < MaxChanges
    /\ passes > 0
    /\ p \in DOMAIN files
    /\ files' = [q \in DOMAIN files \ {p} |-> files[q]]
    /\ changes' = changes + 1
    /\ Forget
    /\ UNCHANGED <<extra, store, passes, faults>>
    /\ UNCHANGED dbVars

\* UpdateIndex is called
StartUpdateIndex ==
    /\ pc \in {"idle", "done"}
    /\ passes < MaxPasses
    /\ pc' = "walk"
    /\ passes' = passes + 1
    /\ nsLeft' = DOMAIN Fss
    /\ ns' = NoNamespace
    /\ visit' = EmptyMap
    /\ cur' = NoFile
    /\ result' = "none"
    /\ touched' = {}
    /\ countAtStart' = Count(store)
    /\ storeFailed' = FALSE
    /\ repeat' = (pc = "done" /\ result = "ok")
    /\ retry' = {k \in DOMAIN visit : visit[k].failure \in {"reply", "embed"}}
    /\ oldDocs' = <<>>
    /\ preSweep' = EmptyMap
    /\ observed' = NoRead
    /\ UNCHANGED <<files, extra, store, faults, changes>>
    /\ UNCHANGED dbVars

\* for namespace, fsys := range i.fss (map order)
RangeNamespace(n) ==
    /\ pc = "walk"
    /\ WalkComplete
    /\ n \in nsLeft
    /\ ns' = n
    /\ nsLeft' = nsLeft \ {n}
    /\ UNCHANGED <<files, extra, store, pc, passes, visit, cur, result,
                   touched, countAtStart, storeFailed, repeat, retry,
                   oldDocs,
                   preSweep, observed, faults, changes>>
    /\ UNCHANGED dbVars

\* the WalkDir callback on a file, up to and including the prefix delete of
\* indexFile (its first store transaction).  fault: "info" d.Info() fails,
\* "get" GetDocument fails, "delete" the delete transaction fails
Visit(p, fault) ==
    /\ pc = "walk"
    /\ ns # NoNamespace
    /\ p \in WalkNext(ns)
    /\ Inject(fault)
    /\ LET info == Fss[ns][p]
           r == needsReindexing(store, ns, p, info, fault = "get")
           prefix == ComputeID(indexFileNamespace(ns), p, -1)
           key == <<ns, p>>
       IN  IF fault = "info" \/ r.err \/ ~r.needs
           THEN /\ fault # "delete"
                /\ visit' = visit @@ (key :>
                      Visited(IF fault = "info" THEN "noinfo"
                              ELSE IF r.err THEN "checkfailed"
                              ELSE "skipped", r, fault, ns, p))
                /\ storeFailed' = (storeFailed \/ fault = "get")
                /\ UNCHANGED <<store, pc, cur, touched, oldDocs, result,
                               observed>>
           ELSE IF p \notin DOMAIN files \/ fault = "delete"
           THEN \* os.Stat(path) or the delete transaction failed
                /\ (fault = "delete") => (p \in DOMAIN files)
                /\ visit' = visit @@
                      (key :> Visited("failed", r, fault, ns, p))
                /\ storeFailed' = (storeFailed \/ fault \in StoreFaults)
                /\ Returned(TRUE)
                /\ UNCHANGED <<store, cur, touched, oldDocs, observed>>
           ELSE /\ visit' = visit @@
                      (key :> Visited("indexing", r, fault, ns, p))
                /\ storeFailed' = (storeFailed \/ fault \in StoreFaults)
                /\ store' = DeleteDocumentsWithPrefix(store, prefix)
                /\ touched' = touched \cup SeqRange(PrefixScan(store, prefix))
                /\ oldDocs' = GetDocumentsWithPrefix(store, prefix)
                /\ cur' = [namespace |-> ns, path |-> p]
                /\ pc' = "marker"
                /\ observed' = NoRead
                /\ UNCHANGED result
    /\ UNCHANGED <<files, extra, passes, nsLeft, ns, countAtStart,
                   repeat, retry, preSweep, changes>>
    /\ UNCHANGED dbVars

\* indexFile: AddDocument(fileDoc).  fault: "embed" or "update"
IndexFileMarker(fault) ==
    /\ pc = "marker"
    /\ Inject(fault)
    /\ LET doc == fileDoc(cur.namespace, cur.path, files[cur.path])
           r == AddDocument(store, doc, fault = "embed", fault = "update")
       IN  /\ store' = r.db
           /\ storeFailed' = (storeFailed \/ r.err = "store")
           /\ IF r.err = "nil"
              THEN /\ touched' = touched \cup {doc.ID}
                   /\ pc' = "summaries"
                   /\ UNCHANGED <<visit, cur, result>>
              ELSE /\ visit' = SetOutcome("failed")
                   /\ cur' = NoFile
                   /\ Returned(TRUE)
                   /\ UNCHANGED touched
    /\ UNCHANGED <<files, extra, passes, nsLeft, ns, countAtStart,
                   repeat, retry, oldDocs, preSweep, observed, changes>>
    /\ UNCHANGED dbVars

\* indexFile: ExtractFileSummaries, then BatchAddDocuments.  fault: "read"
\* os.ReadFile fails, "reply" the summarizer fails or returns no or invalid
\* entries, "embed" the embedding of document embedFailAt fails (and that of
\* document soloFailAt when db.Batch runs the function again), "update" the
\* batch transaction fails
IndexFileSummaries(reply, fault, embedFailAt, soloFailAt) ==
    /\ pc = "summaries"
    /\ Inject(fault)
    /\ LET info == files[cur.path]
           x == ExtractFileSummaries(info, fault = "read", reply)
           docs == summaryDocs(cur.namespace, cur.path, info, x.summaries)
           r == BatchAddDocuments(store, docs, embedFailAt, soloFailAt,
                                  fault = "update")
       IN  /\ (fault = "reply") <=>
                 (ExtractFileSummaries(info, FALSE, reply).err # "nil")
           /\ (fault = "embed") <=> (embedFailAt \in 1..Len(docs))
           /\ (fault # "embed") => (embedFailAt = 0)
           /\ soloFailAt \in {0, embedFailAt}
           /\ IF x.err # "nil"
              THEN /\ visit' = SetFailure(fault)
                   /\ Returned(TRUE)
                   /\ UNCHANGED <<store, touched, storeFailed>>
              ELSE /\ store' = r.db
                   /\ storeFailed' = (storeFailed \/ r.err = "store")
                   /\ IF r.err = "nil"
                      THEN /\ visit' =
                                 [visit EXCEPT
                                    ![<<cur.namespace, cur.path>>].outcome =
                                        "indexed",
                                    ![<<cur.namespace, cur.path>>].summaries =
                                        x.summaries]
                           /\ Returned(FALSE)
                           /\ touched' = touched \cup
                                 {docs[i].ID : i \in 1..Len(docs)}
                      ELSE /\ visit' = SetFailure(fault)
                           /\ Returned(TRUE)
                           /\ UNCHANGED touched
    /\ cur' = NoFile
    /\ UNCHANGED <<files, extra, passes, nsLeft, ns, countAtStart,
                   repeat, retry, oldDocs, preSweep, observed, changes>>
    /\ UNCHANGED dbVars

\* WalkDir hands the callback a directory read error: UpdateIndex returns it
WalkError ==
    /\ pc = "walk"
    /\ ns # NoNamespace
    /\ ~WalkComplete
    /\ Inject("walk")
    /\ pc' = "done"
    /\ result' = "walk error"
    /\ UNCHANGED <<files, extra, store, passes, nsLeft, ns, visit, cur,
                   touched, countAtStart, storeFailed, repeat, retry,
                   oldDocs,
                   preSweep, observed, changes>>
    /\ UNCHANGED dbVars

\* every namespace is walked: CleanupDeletedFiles, then UpdateIndex returns
\* nil.  fault: "filter" GetIndexedFiles fails, "sweep" the delete
\* transaction of entry failAt fails
FinishUpdateIndex(fault, failAt) ==
    /\ pc = "walk"
    /\ WalkComplete
    /\ nsLeft = {}
    /\ Inject(fault)
    /\ LET refs == GetIndexedFiles(store)
           deleteFails == IF fault = "sweep" THEN {failAt} ELSE {}
           swept == CleanupDeletedFiles(store, Fss, fault = "filter",
                                        deleteFails)
       IN  /\ (fault = "sweep") <=> (failAt # 0)
           /\ deleteFails \subseteq
                 {i \in 1..Len(refs) :
                     /\ refs[i].namespace \in DOMAIN Fss
                     /\ refs[i].path \notin DOMAIN Fss[refs[i].namespace]}
           /\ store' = swept
           /\ touched' = touched \cup (DOMAIN store \ DOMAIN swept)
           /\ storeFailed' = (storeFailed \/ fault \in StoreFaults)
    /\ preSweep' = store
    /\ pc' = "done"
    /\ result' = "ok"
    /\ UNCHANGED <<files, extra, passes, nsLeft, ns, visit, cur,
                   countAtStart, repeat, retry, oldDocs, observed, changes>>
    /\ UNCHANGED dbVars

Next ==
    \/ \E p \in Paths, info \in FileInfos : WriteFile(p, info)
    \/ \E p \in Paths : RemoveFile(p)
    \/ StartUpdateIndex
    \/ \E n \in {RepoNamespace, ExtraContextNamespace} : RangeNamespace(n)
    \/ \E p \in Paths \cup ExtraPaths,
          fault \in {"none", "info", "get", "delete"} : Visit(p, fault)
    \/ \E fault \in {"none", "embed", "update"} : IndexFileMarker(fault)
    \/ \E reply \in SummarizerReplies,
          fault \in {"none", "read", "reply", "embed", "update"},
          embedFailAt \in 0..MaxSummaries, soloFailAt \in 0..MaxSummaries :
          IndexFileSummaries(reply, fault, embedFailAt, soloFailAt)
    \/ WalkError
    \/ \E fault \in {"none", "filter", "sweep"},
          failAt \in 0..Cardinality(Paths \cup ExtraPaths) :
          FinishUpdateIndex(fault, failAt)

Spec == Init /\ [][Next]_vars

\* ------------------------------------------------- a concurrent reader
\* another goroutine scans the marker-prefixed range of the file that
\* indexFile is working on
Reader ==
    /\ pc \in {"marker", "summaries"}
    /\ LET prefix == ComputeID(indexFileNamespace(cur.namespace), cur.path, -1)
       IN  observed' = [prefix |-> prefix,
                        docs |-> GetDocumentsWithPrefix(store, prefix)]
    /\ observed' # observed
    /\ UNCHANGED <<files, extra, store, pc, passes, nsLeft, ns, visit, cur,
                   result, touched, countAtStart, storeFailed, repeat, retry,
                   oldDocs, preSweep, faults, changes>>
    /\ UNCHANGED dbVars

NextReader == Next \/ Reader

\* the reader is followed on an indexer built without extra context files
InitReader ==
    /\ Init
    /\ extra = EmptyMap

SpecReader == InitReader /\ [][NextReader]_vars

\* ------------------------------------------- the document store by itself
\* callers of DocumentDB other than the indexer: any document, any ID
DocIDs == {<<>>, <<"a">>, <<"a", "b">>, <<"b">>}
DocContents == {"", "x"}
DocMetadata ==
    {[type |-> "greeting", is_file_entry |-> "false"],
     [type |-> "farewell", lang |-> "en", is_file_entry |-> "true"],
     [lang |-> ""]}
\* filter maps of FilterDocuments and Query
Filters ==
    {EmptyMap, [type |-> "greeting"], [type |-> "farewell", lang |-> "en"],
     [type |-> ""], [lang |-> "en"]}
Documents == [ID : DocIDs, Content : DocContents, Metadata : DocMetadata]

InitDB ==
    /\ files = EmptyMap
    /\ extra = EmptyMap
    /\ store = EmptyMap
    /\ pc = "idle"
    /\ passes = 0
    /\ nsLeft = {}
    /\ ns = NoNamespace
    /\ visit = EmptyMap
    /\ cur = NoFile
    /\ result = "none"
    /\ touched = {}
    /\ countAtStart = 0
    /\ storeFailed = FALSE
    /\ repeat = FALSE
    /\ retry = {}
    /\ oldDocs = <<>>
    /\ preSweep = EmptyMap
    /\ observed = NoRead
    /\ faults = 0
    /\ changes = 0
    /\ call = NoCall
    /\ prevStore = EmptyMap
    /\ added = EmptyMap

DbAddDocument(doc, embedFails, updateFails) ==
    /\ LET r == AddDocument(store, doc, embedFails, updateFails)
       IN  /\ store' = r.db
           /\ call' = [op |-> "AddDocument", doc |-> doc,
                       embedFails |-> embedFails, updateFails |-> updateFails,
                       err |-> r.err, embedded |-> r.embedded]
           /\ added' = IF r.err = "nil"
                       THEN [id \in DOMAIN added \cup {doc.ID} |->
                               IF id = doc.ID THEN doc ELSE added[id]]
                       ELSE added
    /\ prevStore' = store
    /\ UNCHANGED <<files, extra, observed, faults, changes>>
    /\ UNCHANGED passVars

DbDeleteDocument(id) ==
    /\ store' = DeleteDocument(store, id)
    /\ call' = [op |-> "DeleteDocument", id |-> id]
    /\ prevStore' = store
    /\ added' = [k \in DOMAIN added \ {id} |-> added[k]]
    /\ UNCHANGED <<files, extra, observed, faults, changes>>
    /\ UNCHANGED passVars

DbDeleteDocumentsWithPrefix(prefix) ==
    /\ store' = DeleteDocumentsWithPrefix(store, prefix)
    /\ call' = [op |-> "DeleteDocumentsWithPrefix", prefix |-> prefix]
    /\ prevStore' = store
    /\ added' = [k \in {x \in DOMAIN added : ~HasPrefix(x, prefix)} |->
                    added[k]]
    /\ UNCHANGED <<files, extra, observed, faults, changes>>
    /\ UNCHANGED passVars

DbGetDocumentsWithPrefix(prefix) ==
    /\ call' = [op |-> "GetDocumentsWithPrefix", prefix |-> prefix,
                docs |-> GetDocumentsWithPrefix(store, prefix)]
    /\ prevStore' = store
    /\ UNCHANGED <<files, extra, store, observed, faults, changes, added>>
    /\ UNCHANGED passVars

DbFilterDocuments(filters) ==
    /\ call' = [op |-> "FilterDocuments", filters |-> filters,
                docs |-> FilterDocuments(store, filters)]
    /\ prevStore' = store
    /\ UNCHANGED <<files, extra, store, observed, faults, changes, added>>
    /\ UNCHANGED passVars

NextDB ==
    \/ \E doc \in Documents, embedFails \in BOOLEAN, updateFails \in BOOLEAN :
          DbAddDocument(doc, embedFails, updateFails)
    \/ \E id \in DocIDs : DbDeleteDocument(id)
    \/ \E prefix \in DocIDs : DbDeleteDocumentsWithPrefix(prefix)
    \/ \E prefix \in DocIDs : DbGetDocumentsWithPrefix(prefix)
    \/ \E filters \in Filters : DbFilterDocuments(filters)

SpecDB == InitDB /\ [][NextDB]_vars

\* ------------------------------------------------- queries on a given store
\* one call of Query, SearchSimilar or Search on a store drawn at the start
\* stores of up to three documents, any content and metadata
SmallStores ==
    UNION {{[id \in D |->
                Stored([ID |-> id, Content |-> c[id][1], Metadata |-> c[id][2]],
                       EmbedText(c[id][1]))] :
              c \in [D -> DocContents \X DocMetadata]} :
           D \in SUBSET (DocIDs \ {<<>>})}

\* thirteen IDs in key order
ManyIDs ==
    <<<<"0">>, <<"1">>, <<"2">>, <<"3">>, <<"4">>, <<"5">>, <<"6">>, <<"7">>,
      <<"8">>, <<"9">>, <<"a">>, <<"b">>, <<"e">>>>

\* stores of twelve or thirteen chunk documents; the first two have any
\* content, the others the same content
ManyStores ==
    {[id \in {ManyIDs[i] : i \in 1..n} |->
         Stored([ID |-> id,
                 Content |-> IF id = ManyIDs[1] THEN c[1]
                             ELSE IF id = ManyIDs[2] THEN c[2] ELSE "x",
                 Metadata |-> [type |-> "greeting", is_file_entry |-> "false"]],
                EmbedText(IF id = ManyIDs[1] THEN c[1]
                          ELSE IF id = ManyIDs[2] THEN c[2] ELSE "x"))] :
       n \in {Len(ManyIDs) - 1, Len(ManyIDs)}, c \in DocContents \X DocContents}

Limits == 0..3 \cup {Len(ManyIDs)}

InitQuery ==
    /\ files = EmptyMap
    /\ extra = EmptyMap
    /\ store \in SmallStores \cup ManyStores
    /\ pc = "idle"
    /\ passes = 0
    /\ nsLeft = {}
    /\ ns = NoNamespace
    /\ visit = EmptyMap
    /\ cur = NoFile
    /\ result = "none"
    /\ touched = {}
    /\ countAtStart = 0
    /\ storeFailed = FALSE
    /\ repeat = FALSE
    /\ retry = {}
    /\ oldDocs = <<>>
    /\ preSweep = EmptyMap
    /\ observed = NoRead
    /\ faults = 0
    /\ changes = 0
    /\ call = NoCall
    /\ prevStore = store
    /\ added = EmptyMap

DbQuery(queryContent, limit, filters) ==
    /\ call = NoCall
    /\ call' = [op |-> "Query", queryContent |-> queryContent,
                limit |-> limit, filters |-> filters,
                results |-> Query(store, queryContent, limit, filters)]
    /\ UNCHANGED <<files, extra, store, observed, faults, changes, added,
                   prevStore>>
    /\ UNCHANGED passVars

DbSearchSimilar(queryContent, k) ==
    /\ call = NoCall
    /\ call' = [op |-> "SearchSimilar", queryContent |-> queryContent,
                limit |-> k, docs |-> SearchSimilar(store, queryContent, k)]
    /\ UNCHANGED <<files, extra, store, observed, faults, changes, added,
                   prevStore>>
    /\ UNCHANGED passVars

DbSearch(query, queryLimit) ==
    /\ call = NoCall
    /\ call' = [op |-> "Search", queryContent |-> query,
                limit |-> queryLimit,
                results |-> Search(store, query, queryLimit)]
    /\ UNCHANGED <<files, extra, store, observed, faults, changes, added,
                   prevStore>>
    /\ UNCHANGED passVars

NextQuery ==
    \/ \E queryContent \in DocContents, limit \in Limits, filters \in Filters :
          DbQuery(queryContent, limit, filters)
    \/ \E queryContent \in DocContents, k \in Limits :
          DbSearchSimilar(queryContent, k)
    \/ \E query \in DocContents, queryLimit \in Limits :
          DbSearch(query, queryLimit)

SpecQuery == InitQuery /\ [][NextQuery]_vars

\* ------------------------------------------------- batches on a given store
\* one call of BatchAddDocuments on a store drawn at the start
MaxBatch == 2

BatchDocuments ==
    [ID : {<<>>, <<"a">>, <<"b">>}, Content : DocContents,
     Metadata : {[type |-> "greeting", is_file_entry |-> "false"]}]

Batches == UNION {[1..n -> BatchDocuments] : n \in 0..MaxBatch}

DbBatchAddDocuments(docs, embedFailAt, soloFailAt, updateFails) ==
    /\ call = NoCall
    \* an embedding fails in a run that reaches it
    /\ \A at \in {embedFailAt, soloFailAt} \ {0} :
          /\ at \in 1..Len(docs)
          /\ \A j \in 1..at : docs[j].ID # <<>>
    /\ soloFailAt # 0 => embedFailAt # 0
    /\ LET r == BatchAddDocuments(store, docs, embedFailAt, soloFailAt,
                                  updateFails)
       IN  /\ call' = [op |-> "BatchAddDocuments", docs |-> docs,
                       embedFailAt |-> embedFailAt, err |-> r.err]
           /\ prevStore' = store
           /\ store' = r.db
    /\ UNCHANGED <<files, extra, observed, faults, changes, added>>
    /\ UNCHANGED passVars

NextBatch ==
    \E docs \in Batches, embedFailAt \in 0..MaxBatch,
       soloFailAt \in 0..MaxBatch, updateFails \in BOOLEAN :
       DbBatchAddDocuments(docs, embedFailAt, soloFailAt, updateFails)

InitBatch ==
    /\ InitQuery
    /\ store \in SmallStores

SpecBatch == InitBatch /\ [][NextBatch]_vars

\* -------------------------------------------- questions on a given index
\* one call of Indexer.Query, or of mergeRanges, on an index and files drawn
\* at the start
MaxChunks == 2
LongFile == 100
ShortFile == 30
OddFile == 21

\* the file as it was indexed
IndexedInfo == [mtime |-> 0, lines |-> LongFile]

\* line ranges the summarizer gave for it
AskSpans ==
    {<<1, 50>>, <<1, 51>>, <<62, 62>>, <<10, 20>>, <<10, 30>>, <<25, 35>>,
     <<40, 50>>}

AskSummaries ==
    {[summary |-> "s", start_line |-> sp[1], end_line |-> sp[2]] :
        sp \in AskSpans}

\* the documents indexFile stores for a file with the given summaries
IndexedDocs(path, summaries) ==
    <<fileDoc(RepoNamespace, path, IndexedInfo)>> \o
    summaryDocs(RepoNamespace, path, IndexedInfo, summaries)

\* indexes of a.go with up to MaxChunks chunks and of a.go.bak with up to
\* one, and the empty index
AskStores ==
    {BatchFn(EmptyMap, a \o b, 0).db :
        a \in {<<>>} \cup
              {IndexedDocs(PathA, ss) :
                  ss \in UNION {[1..n -> AskSummaries] : n \in 0..MaxChunks}},
        b \in {<<>>} \cup
              {IndexedDocs(PathABak, <<[summary |-> "s", start_line |-> sl,
                                        end_line |-> sl]>>) : sl \in {1, 62}}}

\* the files now: a.go as it was, shorter, or gone; a.go.bak as it was or
\* gone
AskTrees ==
    {a @@ b :
        a \in {EmptyMap} \cup
              {(PathA :> [mtime |-> 0, lines |-> n, width |-> 1]) :
                  n \in {OddFile, ShortFile, LongFile}},
        b \in {EmptyMap,
               (PathABak :> [mtime |-> 0, lines |-> LongFile, width |-> 1])}}

\* what the answer model returns
AnswerReplies ==
    {[err |-> TRUE, text |-> ""], [err |-> FALSE, text |-> "answer"],
     [err |-> FALSE, text |-> NoRelevantCode]}

\* the lists mergeRanges is called with
RangeLists ==
    UNION {[1..n -> {[startLine |-> sp[1], endLine |-> sp[2],
                      path |-> PathA, namespace |-> RepoNamespace] :
                        sp \in AskSpans}] : n \in 0..(MaxChunks + 1)}

\* an index made earlier, the indexer at rest
InitIndex ==
    /\ extra = EmptyMap
    /\ store \in AskStores
    /\ pc = "idle"
    /\ passes = 0
    /\ nsLeft = {}
    /\ ns = NoNamespace
    /\ visit = EmptyMap
    /\ cur = NoFile
    /\ result = "none"
    /\ touched = {}
    /\ countAtStart = 0
    /\ storeFailed = FALSE
    /\ repeat = FALSE
    /\ retry = {}
    /\ oldDocs = <<>>
    /\ preSweep = EmptyMap
    /\ observed = NoRead
    /\ faults = 0
    /\ changes = 0
    /\ call = NoCall
    /\ prevStore = store
    /\ added = EmptyMap

\* the keys of fileRanges in a call of Indexer.Query
QueryKeys(query) ==
    DOMAIN GroupRanges(filterResults(Search(store, query, SearchLimit)))

InitAsk ==
    /\ InitIndex
    /\ files \in AskTrees

DoIndexerQuery(query, searchFails, order, reply) ==
    /\ call = NoCall
    /\ call' = [op |-> "IndexerQuery", query |-> query,
                searchFails |-> searchFails, reply |-> reply,
                out |-> IndexerQuery(store, Fss, query, searchFails, order,
                                     reply)]
    /\ UNCHANGED <<files, extra, store, observed, faults, changes, added,
                   prevStore>>
    /\ UNCHANGED passVars

DoMergeRanges(ranges) ==
    /\ call = NoCall
    /\ call' = [op |-> "mergeRanges", ranges |-> ranges,
                mergedRanges |-> mergeRanges(ranges)]
    /\ UNCHANGED <<files, extra, store, observed, faults, changes, added,
                   prevStore>>
    /\ UNCHANGED passVars

NextAsk ==
    \E query \in DocContents :
       \E order \in WalkOrders(QueryKeys(query)), searchFails \in BOOLEAN,
          reply \in AnswerReplies :
          DoIndexerQuery(query, searchFails, order, reply)

SpecAsk == InitAsk /\ [][NextAsk]_vars

\* mergeRanges on its own
InitRanges ==
    /\ InitAsk
    /\ files = EmptyMap
    /\ store = EmptyMap

NextRanges == \E ranges \in RangeLists : DoMergeRanges(ranges)

SpecRanges == InitRanges /\ [][NextRanges]_vars

\* ------------------------------------------------------ ComputeID alone
MaxPathLen == 3
MaxIndex == 2

\* paths of up to MaxPathLen characters, "#" and digits among them
IDPaths == UNION {[1..n -> {"a", "#", "0"}] : n \in 1..MaxPathLen}

DoComputeID(namespace, path, idx) ==
    /\ call = NoCall
    /\ call' = [op |-> "ComputeID", namespace |-> namespace, path |-> path,
                idx |-> idx, id |-> ComputeID(namespace, path, idx)]
    /\ UNCHANGED <<files, extra, store, observed, faults, changes, added,
                   prevStore>>
    /\ UNCHANGED passVars

NextIDs ==
    \E namespace \in {RepoNamespace, ExtraContextNamespace}, path \in IDPaths,
       idx \in -1..MaxIndex :
       DoComputeID(namespace, path, idx)

SpecIDs == InitRanges /\ [][NextIDs]_vars

\* --------------------------------------------------- filterResults alone
MaxResults == 21

\* the similarities 1.0, 0.4, 0.3 and 0.0
ResultSimilarities == <<10, 4, 3, 0>>

\* a result list in non-increasing similarity: counts[k] results of the
\* k-th similarity, the i-th result being of document i
SortedResults(counts) ==
    LET upTo(k) == IF k = 0 THEN 0
                   ELSE IF k = 1 THEN counts[1]
                   ELSE IF k = 2 THEN counts[1] + counts[2]
                   ELSE IF k = 3 THEN counts[1] + counts[2] + counts[3]
                   ELSE counts[1] + counts[2] + counts[3] + counts[4]
    IN  [i \in 1..upTo(4) |->
            [Document |-> [ID |-> DecStr(i)],
             Similarity |->
                 ResultSimilarities[CHOOSE k \in 1..4 :
                                        upTo(k - 1) < i /\ i <= upTo(k)]]]

DoFilterResults(results) ==
    /\ call = NoCall
    /\ call' = [op |-> "filterResults", results |-> results,
                filtered |-> filterResults(results)]
    /\ UNCHANGED <<files, extra, store, observed, faults, changes, added,
                   prevStore>>
    /\ UNCHANGED passVars

NextFilter ==
    /\ call = NoCall
    /\ \E counts \in [1..4 -> 0..MaxResults] :
          /\ counts[1] + counts[2] + counts[3] + counts[4] <= MaxResults
          /\ DoFilterResults(SortedResults(counts))

SpecFilter == InitRanges /\ [][NextFilter]_vars

\* -------------------------------------------------- collectSnippets alone
\* one call of collectSnippets with the results of a search, on an index
\* and files drawn at the start; the files have short or long lines
WideLine == 6000

SnippetTrees ==
    {a @@ b :
        a \in {EmptyMap} \cup
              {(PathA :> [mtime |-> 0, lines |-> n, width |-> w]) :
                  n \in {OddFile, ShortFile, LongFile}, w \in {1, WideLine}},
        b \in {EmptyMap} \cup
              {(PathABak :> [mtime |-> 0, lines |-> LongFile, width |-> w]) :
                  w \in {1, WideLine}}}

InitSnippets ==
    /\ InitIndex
    /\ files \in SnippetTrees

DoCollectSnippets(query, order) ==
    /\ call = NoCall
    /\ LET results == filterResults(Search(store, query, SearchLimit))
       IN  call' = [op |-> "collectSnippets", results |-> results,
                    order |-> order,
                    out |-> collectSnippets(results, Fss, order)]
    /\ UNCHANGED <<files, extra, store, observed, faults, changes, added,
                   prevStore>>
    /\ UNCHANGED passVars

NextSnippets ==
    \E query \in {"x"} :
       \E order \in WalkOrders(QueryKeys(query)) :
          DoCollectSnippets(query, order)

SpecSnippets == InitSnippets /\ [][NextSnippets]_vars

\* ------------------------------------------------------------- properties
\* the IDs ComputeID gives to the marker and the summaries of one file
FileIDs(namespace, path) ==
    {ComputeID(namespace, path, i) : i \in -1..(MaxSummaries - 1)}

\* the documents a store holds for one file
DocsOf(db, namespace, path) ==
    [id \in FileIDs(namespace, path) \cap DOMAIN db |-> db[id]]

\* the callback called indexFile on the file
Reindexed(v) == v.outcome \in {"indexing", "indexed", "failed"}

\* C1: a pass that starts right after a pass that returned nil, with no file
\* changed in between and no failure injected, puts and deletes nothing and
\* leaves Count() as it was.
C1_Idempotence ==
    (pc = "done" /\ repeat /\ result = "ok" /\ faults = 0)
        => (touched = {} /\ Count(store) = countAtStart)

\* C2: a walked file is handed to indexFile exactly when it had no marker or
\* its modification time is, in whole seconds, later than the recorded one;
\* and no document of a file that was not handed to indexFile is put or
\* deleted during the pass.
C2_StalenessDecision ==
    (pc = "done" /\ result = "ok" /\ faults = 0) =>
        \A k \in DOMAIN visit :
            ~visit[k].recorded.fiveDigitYear =>
                /\ Reindexed(visit[k]) <=>
                      (\/ ~visit[k].hadMarker
                       \/ Unix(visit[k].mtime) > visit[k].recorded.sec)
                /\ ~Reindexed(visit[k]) =>
                      touched \cap FileIDs(k[1], k[2]) = {}

\* a step of indexFile on the file P of namespace N
ReindexStep(N, P) ==
    \/ /\ pc = "walk"
       /\ pc' = "marker"
       /\ cur' = [namespace |-> N, path |-> P]
    \/ /\ pc \in {"marker", "summaries"}
       /\ cur = [namespace |-> N, path |-> P]

\* the step of the sweep that finds the indexed file P of namespace N gone
SweepStep(N, P) ==
    /\ pc = "walk"
    /\ pc' = "done"
    /\ result' = "ok"
    /\ P \notin DOMAIN Fss[N]
    /\ ComputeID(N, P, -1) \in DOMAIN store

\* C3: a step that re-indexes or sweeps the file P of a namespace leaves the
\* marker and the summaries of every other file of that namespace whose path
\* begins with P as they were.
C3_PrefixIsolation ==
    [][\A N \in DOMAIN Fss : \A P \in Paths, Q \in DOMAIN Fss[N] :
          (/\ P # Q
           /\ HasPrefix(Q, P)
           /\ (ReindexStep(N, P) \/ SweepStep(N, P)))
              => DocsOf(store', N, Q) = DocsOf(store, N, Q)]_vars

\* C4: when indexFile returns, a scan of the file's marker-prefixed range
\* that another goroutine made while indexFile was at work returned either
\* the complete set the range held before or the complete set it holds now.
C4_AtomicReplacement ==
    [][(/\ pc \in {"marker", "summaries"}
        /\ pc' \notin {"marker", "summaries"}
        /\ observed # NoRead)
          => observed.docs \in
                {oldDocs, GetDocumentsWithPrefix(store', observed.prefix)}]_vars

\* C5: when UpdateIndex has returned and the directory walk itself did not
\* fail, it returned nil, the callback has been called on every file of every
\* namespace, and every file found stale was handed to indexFile.
C5_FailureIsolation ==
    (pc = "done" /\ result # "walk error") =>
        /\ result = "ok"
        /\ \A n \in DOMAIN Fss : \A p \in DOMAIN Fss[n] :
              /\ <<n, p>> \in DOMAIN visit
              /\ (/\ visit[<<n, p>>].needs
                  /\ ~visit[<<n, p>>].err
                  /\ visit[<<n, p>>].fault # "info")
                     => visit[<<n, p>>].outcome \in {"indexed", "failed"}

\* C5 witness: a pass returned nil in which one file failed and a file
\* visited after it was indexed.
C5_Witness ==
    /\ pc = "done"
    /\ result = "ok"
    /\ \E k1, k2 \in DOMAIN visit :
          /\ visit[k1].outcome = "failed"
          /\ visit[k2].outcome = "indexed"
          /\ visit[k2].order > visit[k1].order

\* C6: when a pass returns and no failure was injected, no marker or summary is
\* left of a file that had a marker when the sweep began and is gone from
\* its namespace, and the sweep removed or changed nothing of a file that is
\* still in its namespace.
C6_DeletionSweep ==
    (pc = "done" /\ result = "ok" /\ faults = 0) =>
        /\ \A id \in DOMAIN preSweep :
              LET m == preSweep[id].Metadata
              IN  (/\ m.is_file_entry = "true"
                   /\ m.namespace \in DOMAIN Fss
                   /\ m.path \notin DOMAIN Fss[m.namespace])
                      => FileIDs(m.namespace, m.path) \cap DOMAIN store = {}
        /\ \A n \in DOMAIN Fss : \A p \in DOMAIN Fss[n] :
              DocsOf(store, n, p) = DocsOf(preSweep, n, p)

\* C7: in the step in which indexFile finishes the file p of namespace n
\* without error, the store holds the marker under "n:p" and the first
\* summary under "n:p#0", both with metadata namespace n and path p.
C7_NamespaceQualifiedIDs ==
    [][\A k \in DOMAIN visit :
          (visit[k].outcome = "indexing" /\ visit'[k].outcome = "indexed") =>
              \A i \in {-1, 0} :
                  /\ ComputeID(k[1], k[2], i) \in DOMAIN store'
                  /\ store'[ComputeID(k[1], k[2], i)].Metadata.namespace = k[1]
                  /\ store'[ComputeID(k[1], k[2], i)].Metadata.path = k[2]]_vars

\* C8: a file whose marker records a mod_time that does not parse is handed
\* to indexFile in the same pass.
C8_FailOpen ==
    \A k \in DOMAIN visit :
        (/\ visit[k].hadMarker
         /\ visit[k].recorded.fiveDigitYear
         /\ visit[k].fault = "none")
            => Reindexed(visit[k])

\* C9: a pass in which the staleness lookup, the prefix delete, the marker
\* write or the batch insert failed on the store does not return nil.
C9_StoreFailureFatal ==
    (pc = "done" /\ storeFailed) => result # "ok"

\* C10: after AddDocument(doc): with an empty ID it failed, the embedding was
\* not asked for and the store is as before; with a failed embedding it
\* returned that failure and the store is as before; when it returned nil the
\* store holds doc under doc.ID with the embedding of doc.Content, whatever it
\* held there before, and every other document is as before.
C10_AddDocument ==
    call.op = "AddDocument" =>
        /\ call.doc.ID = <<>> =>
              /\ call.err = "empty id"
              /\ call.embedded = 0
              /\ store = prevStore
        /\ (call.doc.ID # <<>> /\ call.embedFails) =>
              /\ call.err = "embedding"
              /\ store = prevStore
        /\ (call.doc.ID # <<>> /\ ~call.embedFails /\ ~call.updateFails) =>
              /\ call.err = "nil"
              /\ DOMAIN store = DOMAIN prevStore \cup {call.doc.ID}
              /\ store[call.doc.ID] =
                    [ID |-> call.doc.ID, Content |-> call.doc.Content,
                     Metadata |-> call.doc.Metadata,
                     Vector |-> EmbedText(call.doc.Content)]
              /\ \A id \in DOMAIN prevStore \ {call.doc.ID} :
                    store[id] = prevStore[id]

\* C10 witness: AddDocument returned nil and replaced a different document
\* stored under the same ID, with another document in the store.
C10_Witness ==
    /\ call.op = "AddDocument"
    /\ call.err = "nil"
    /\ call.doc.ID \in DOMAIN prevStore
    /\ prevStore[call.doc.ID] # store[call.doc.ID]
    /\ DOMAIN prevStore \ {call.doc.ID} # {}

\* C11: GetDocument(id) returns the document last added under id, with its ID
\* and Content, when id was added and not deleted since, and ErrNotFound when
\* id was never added or was deleted after its last add.
C11_GetAfterPutDelete ==
    call.op \in {"AddDocument", "DeleteDocument"} =>
        \A id \in DocIDs :
            LET r == GetDocument(store, id)
            IN  IF id \in DOMAIN added
                THEN /\ r.err = "nil"
                     /\ r.doc.ID = added[id].ID
                     /\ r.doc.Content = added[id].Content
                ELSE r.err = "ErrNotFound"

\* C11 witness: DeleteDocument removed a document that had been added, while
\* another added document stays readable.
C11_Witness ==
    /\ call.op = "DeleteDocument"
    /\ call.id \in DOMAIN prevStore
    /\ GetDocument(store, call.id).err = "ErrNotFound"
    /\ \E id \in DOMAIN added : GetDocument(store, id).err = "nil"

\* the documents of a store whose ID begins with prefix
WithPrefix(db, prefix) == {db[id] : id \in {k \in DOMAIN db : HasPrefix(k, prefix)}}

\* C12: after DeleteDocumentsWithPrefix(p) no document whose ID begins with p
\* is left, the scan of p is empty, every other document is as before, and
\* what was removed is what GetDocumentsWithPrefix(p) returned before;
\* GetDocumentsWithPrefix(p) returns exactly the documents whose ID begins
\* with p and leaves the store as it was.
C12_PrefixDeleteAndScan ==
    /\ call.op = "DeleteDocumentsWithPrefix" =>
          /\ DOMAIN store =
                {id \in DOMAIN prevStore : ~HasPrefix(id, call.prefix)}
          /\ \A id \in DOMAIN store : store[id] = prevStore[id]
          /\ GetDocumentsWithPrefix(store, call.prefix) = <<>>
          /\ SeqRange(GetDocumentsWithPrefix(prevStore, call.prefix))
                = {prevStore[id] : id \in DOMAIN prevStore \ DOMAIN store}
    /\ call.op = "GetDocumentsWithPrefix" =>
          /\ SeqRange(call.docs) = WithPrefix(prevStore, call.prefix)
          /\ Len(call.docs) = Cardinality(WithPrefix(prevStore, call.prefix))
          /\ store = prevStore

\* C12 witness: a prefix delete removed two documents with consecutive keys
\* and left a document with another prefix.
C12_Witness ==
    /\ call.op = "DeleteDocumentsWithPrefix"
    /\ Cardinality(DOMAIN prevStore \ DOMAIN store) >= 2
    /\ store # EmptyMap

\* the metadata holds every filter key with an equal value
SupersetMatch(doc, filters) ==
    \A k \in DOMAIN filters :
        k \in DOMAIN doc.Metadata /\ doc.Metadata[k] = filters[k]

\* C13: FilterDocuments(filters) returns exactly the stored documents whose
\* metadata holds every filter key with an equal value; a document that
\* lacks a filter key is not returned, whatever the filter value.
C13_FilterExact ==
    call.op = "FilterDocuments" =>
        SeqRange(call.docs) =
            {store[id] : id \in {k \in DOMAIN store :
                                    SupersetMatch(store[k], call.filters)}}

\* similarity of a stored document to the query text
SimilarityTo(queryContent, doc) ==
    cosineSimilarity(EmbedText(queryContent), doc.Vector)

\* docs holds min(limit, number of candidates) different candidates, in
\* order of non-increasing similarity, and no candidate left out is more
\* similar than one of them
Ranked(docs, candidates, queryContent, limit) ==
    /\ \A i \in 1..Len(docs) : docs[i] \in candidates
    /\ \A i, j \in 1..Len(docs) : i < j =>
          /\ docs[i] # docs[j]
          /\ SimilarityTo(queryContent, docs[i])
                >= SimilarityTo(queryContent, docs[j])
    /\ Len(docs) = IF limit > Cardinality(candidates)
                   THEN Cardinality(candidates) ELSE limit
    /\ \A d \in candidates \ SeqRange(docs) : \A i \in 1..Len(docs) :
          SimilarityTo(queryContent, d) <= SimilarityTo(queryContent, docs[i])

\* C14: Query returns min(limit, matches) of the documents whose metadata
\* holds every filter key with an equal value, ranked by similarity, each
\* with its similarity; SearchSimilar ranks all documents the same way;
\* Search returns no marker document.
C14_SimilarityRanking ==
    /\ call.op = "Query" =>
          /\ Ranked([i \in 1..Len(call.results) |-> call.results[i].Document],
                    {store[id] : id \in {k \in DOMAIN store :
                        SupersetMatch(store[k], call.filters)}},
                    call.queryContent, call.limit)
          /\ \A i \in 1..Len(call.results) :
                call.results[i].Similarity =
                    SimilarityTo(call.queryContent, call.results[i].Document)
    /\ call.op = "SearchSimilar" =>
          Ranked(call.docs, {store[id] : id \in DOMAIN store},
                 call.queryContent, call.limit)
    /\ call.op = "Search" =>
          \A i \in 1..Len(call.results) :
              MetaGet(call.results[i].Document.Metadata, "is_file_entry")
                  # "true"

\* C15: documents that Query returns with the same similarity are in
\* ascending order of ID, the order of the scan, and a matching document left
\* out by the truncation does not precede, in that order, a returned document
\* of the same similarity.
C15_StableTieOrder ==
    call.op = "Query" =>
        /\ \A i, j \in 1..Len(call.results) :
              (/\ i < j
               /\ call.results[i].Similarity = call.results[j].Similarity)
                  => BytesLess(call.results[i].Document.ID,
                               call.results[j].Document.ID)
        /\ \A id \in DOMAIN store : \A i \in 1..Len(call.results) :
              (/\ MatchesFilters(store[id], call.filters)
               /\ store[id] \notin
                     {call.results[k].Document : k \in 1..Len(call.results)}
               /\ SimilarityTo(call.queryContent, store[id])
                     = call.results[i].Similarity)
                  => BytesLess(call.results[i].Document.ID, id)

\* C16: BatchAddDocuments is all-or-nothing: when a document of the batch has
\* an empty ID or its embedding fails, the call returns an error and the store
\* is as before the call; when the call returns nil, every document of the
\* batch is stored (a later document of the same ID over an earlier one) and
\* the other documents are as before
C16_BatchAllOrNothing ==
    (call # NoCall /\ call.op = "BatchAddDocuments") =>
        LET docs == call.docs
            ids == {docs[i].ID : i \in 1..Len(docs)}
            last(id) == CHOOSE i \in 1..Len(docs) :
                            /\ docs[i].ID = id
                            /\ \A j \in 1..Len(docs) :
                                  docs[j].ID = id => j <= i
        IN  /\ (<<>> \in ids \/ call.embedFailAt # 0) =>
                  (call.err # "nil" /\ store = prevStore)
            /\ call.err # "nil" => store = prevStore
            /\ call.err = "nil" =>
                  /\ DOMAIN store = DOMAIN prevStore \cup ids
                  /\ \A id \in ids :
                        store[id] = Stored(docs[last(id)],
                                           EmbedText(docs[last(id)].Content))
                  /\ \A id \in DOMAIN prevStore \ ids :
                        store[id] = prevStore[id]

\* C17: Indexer.Query returns the fixed refusal text, as a result and not an
\* error, without invoking the answer model whenever the filtered result
\* set is empty, which it is on an empty index; when the filtered set is not
\* empty it invokes the answer model exactly once and returns the text the
\* model gives
C17_RefusalWithoutGeneration ==
    (call # NoCall /\ call.op = "IndexerQuery" /\ ~call.searchFails) =>
        /\ Count(store) = 0 => Len(call.out.filtered) = 0
        /\ Len(call.out.filtered) = 0 =>
              /\ call.out.err = "nil"
              /\ call.out.answer = NoRelevantCode
              /\ call.out.generated = 0
        /\ Len(call.out.filtered) # 0 =>
              /\ call.out.generated = 1
              /\ ~call.reply.err =>
                    (call.out.err = "nil" /\ call.out.answer = call.reply.text)

\* the orderings of a list of ranges
Orderings(ranges) ==
    {[i \in 1..Len(ranges) |-> ranges[p[i]]] :
        p \in {q \in [1..Len(ranges) -> 1..Len(ranges)] :
                  \A i, j \in 1..Len(ranges) : i # j => q[i] # q[j]}}

\* C18: mergeRanges (threshold 10) returns the same merged ranges for every
\* ordering of the ranges it was given, ranges of one start line included
C18_MergeOrderIndependent ==
    (call # NoCall /\ call.op = "mergeRanges") =>
        \A other \in Orderings(call.ranges) :
            mergeRanges(other) = call.mergedRanges

\* the whole file of f as one range
WholeFile(f) ==
    <<[startLine |-> 1, endLine |-> f.totalLines, path |-> f.path,
       namespace |-> f.namespace]>>

\* C19: for a file of T lines collectSnippets takes the single range [1, T]
\* in place of the file's merged ranges if and only if the merged ranges
\* cover strictly more than half of T distinct lines; otherwise it takes
\* each merged range on its own
C19_WholeFilePromotion ==
    (call # NoCall /\ call.op = "IndexerQuery") =>
        \A i \in 1..Len(call.out.files) :
            LET f == call.out.files[i]
                covered == Cardinality(IncludedLines(f.mergedRanges))
            IN  /\ f.mergedRanges = mergeRanges(f.ranges)
                /\ f.taken = IF 2 * covered > f.totalLines THEN WholeFile(f)
                             ELSE f.mergedRanges

\* a file of 100 lines is promoted for two merged ranges that cover 51 lines
C19_Witness ==
    /\ call # NoCall
    /\ call.op = "IndexerQuery"
    /\ \E i \in 1..Len(call.out.files) :
          LET f == call.out.files[i]
          IN  /\ f.totalLines = LongFile
              /\ Len(f.mergedRanges) = 2
              /\ Cardinality(IncludedLines(f.mergedRanges)) = 51
              /\ f.taken = WholeFile(f)

\* C20: in every reachable store state a marker document has empty Content,
\* and a chunk document has non-empty Content and line numbers with
\* 1 <= start_line <= end_line <= the line count its file had when it was
\* indexed (the size indexFile recorded is that count less one)
C20_DocumentShape ==
    \A id \in DOMAIN store :
        LET d == store[id]
        IN  IF d.Metadata.is_file_entry = "true" THEN d.Content = ""
            ELSE /\ d.Content # ""
                 /\ 1 <= Atoi(d.Metadata.start_line).n
                 /\ Atoi(d.Metadata.start_line).n <= Atoi(d.Metadata.end_line).n
                 /\ Atoi(d.Metadata.end_line).n <= Atoi(d.Metadata.size).n + 1

\* C21: ComputeID is injective: no other triple of namespace, path and
\* marker-or-chunk-index gives the ID that a triple gives
C21_IDUniqueness ==
    (call # NoCall /\ call.op = "ComputeID") =>
        \A namespace \in {RepoNamespace, ExtraContextNamespace},
           path \in IDPaths, idx \in -1..MaxIndex :
            ComputeID(namespace, path, idx) = call.id =>
                /\ namespace = call.namespace
                /\ path = call.path
                /\ idx = call.idx

RECURSIVE RetainedCost(_, _)
RetainedCost(log, n) ==
    IF n = 0 THEN 0
    ELSE RetainedCost(log, n - 1)
           + (IF log[n].retained THEN log[n].tokenEstimate ELSE 0)

\* C23: collectSnippets adds the snippets in processing order, each costed
\* as a quarter of the length of its text, while the running total stays at
\* most 32000; the cost of the retained snippets never exceeds 32000, and
\* after a snippet was rejected for the budget no later one is retained, be
\* it of the same file, of another file or of another namespace
C23_TokenBudget ==
    (call # NoCall /\ call.op = "collectSnippets") =>
        LET log == call.out.log
            textLen(e) ==
                LET n == Len(e.example.Content)
                    w == Fss[e.range.namespace][e.range.path].width
                IN  IF n = 0 THEN 0 ELSE n * w + (n - 1)
        IN  /\ \A i \in 1..Len(log) :
                  ~log[i].panic =>
                      /\ log[i].tokenEstimate = textLen(log[i]) \div 4
                      /\ log[i].retained <=>
                            (RetainedCost(log, i - 1) + log[i].tokenEstimate
                                <= MaxTokens)
            /\ RetainedCost(log, Len(log)) <= MaxTokens
            /\ call.out.examples =
                  [j \in 1..Len(call.out.examples) |->
                      SelectSeq(log, LAMBDA e : e.retained)[j].example]
            /\ Len(call.out.examples)
                  = Len(SelectSeq(log, LAMBDA e : e.retained))
            /\ \A i, j \in 1..Len(log) :
                  (i < j /\ ~log[i].panic /\ ~log[i].retained)
                      => ~log[j].retained

\* C24: for a retained range [s, e] of a file of T lines extractSnippet
\* returns the snippet with StartLine = max(1, s - 5) and EndLine =
\* min(T, e + 5), whose Content is the lines StartLine..EndLine of the file as
\* it is read now from the namespace of the file, and whose Path and
\* Namespace are those of the chunk documents the range came from
C24_ContextExpansion ==
    (call # NoCall /\ call.op = "collectSnippets") =>
        \A i \in 1..Len(call.out.log) :
            LET e == call.out.log[i]
                T == e.totalLines
                from == IF e.range.startLine - 5 < 1 THEN 1
                        ELSE e.range.startLine - 5
                to == IF e.range.endLine + 5 > T THEN T
                      ELSE e.range.endLine + 5
                now == Fss[e.example.Namespace][e.example.Path]
            IN  /\ ~e.panic
                /\ T = now.lines
                /\ e.example.StartLine = from
                /\ e.example.EndLine = to
                /\ e.example.Content = [j \in 1..(to - from + 1) |->
                                           FileLines(now)[from + j - 1]]
                /\ \E k \in 1..Len(call.results) :
                      LET d == call.results[k].Document.Metadata
                      IN  /\ d.path = e.example.Path
                          /\ d.namespace = e.example.Namespace

\* C27: for every chunk range of the index and every present content of
\* the file, a file shorter than the stored start_line included,
\* extractSnippet and collectSnippets neither fail nor panic, and every
\* snippet returned has 1 <= StartLine <= EndLine <= the present line count
\* of its file
C27_SafeExtraction ==
    (call # NoCall /\ call.op = "collectSnippets") =>
        /\ ~call.out.panic
        /\ \A i \in 1..Len(call.out.log) : ~call.out.log[i].panic
        /\ \A i \in 1..Len(call.out.examples) :
              LET x == call.out.examples[i]
              IN  /\ 1 <= x.StartLine
                  /\ x.StartLine <= x.EndLine
                  /\ x.EndLine <= Fss[x.Namespace][x.Path].lines

\* C30: for one query, any two snippets collectSnippets retains for one
\* (namespace, path) have disjoint line intervals [StartLine, EndLine] after
\* the expansion by 5 lines of context
C30_NoOverlap ==
    (call # NoCall /\ call.op = "collectSnippets") =>
        \A i, j \in 1..Len(call.out.examples) :
            LET x == call.out.examples[i]
                y == call.out.examples[j]
            IN  (i # j /\ x.Namespace = y.Namespace /\ x.Path = y.Path) =>
                    (x.StartLine..x.EndLine) \cap (y.StartLine..y.EndLine) = {}

\* two snippets of one file are retained, eleven lines apart before the
\* expansion
C30_Witness ==
    /\ call # NoCall
    /\ call.op = "collectSnippets"
    /\ Len(call.out.examples) = 2
    /\ call.out.examples[1].Path = call.out.examples[2].Path
    /\ call.out.examples[1].EndLine = 55
    /\ call.out.examples[2].StartLine = 57

\* C26: every line covered by a range given to mergeRanges is covered by a
\* range of its result, also when a range lies within another one or ends
\* before an earlier-starting one ends
C26_MergePreservesCoverage ==
    (call # NoCall /\ call.op = "mergeRanges") =>
        IncludedLines(call.ranges) \subseteq IncludedLines(call.mergedRanges)

\* the chunk documents a store holds for one file
ChunksOf(db, namespace, path) ==
    [id \in {ComputeID(namespace, path, i) : i \in 0..MaxSummaries}
               \cap DOMAIN db |-> db[id]]

\* C25: in the step in which indexFile finishes the file p of namespace n
\* without error, having got the summaries s[1..len] from the summarizer,
\* the chunks the store holds for the file are exactly "n:p#0" ..
\* "n:p#len-1", the one with index i holding the text and the line range of
\* s[i+1] and the file's modification time of this pass.
C25_LatestPassChunks ==
    [][\A k \in DOMAIN visit :
          (visit[k].outcome = "indexing" /\ visit'[k].outcome = "indexed") =>
              LET s == visit'[k].summaries
                  chunks == ChunksOf(store', k[1], k[2])
              IN  /\ DOMAIN chunks =
                        {ComputeID(k[1], k[2], i - 1) : i \in 1..Len(s)}
                  /\ \A i \in 1..Len(s) :
                        LET d == chunks[ComputeID(k[1], k[2], i - 1)]
                        IN  /\ d.Content = s[i].summary
                            /\ d.Metadata.start_line = DecStr(s[i].start_line)
                            /\ d.Metadata.end_line = DecStr(s[i].end_line)
                            /\ d.Metadata.mod_time =
                                  FormatRFC3339(visit[k].mtime)]_vars

\* C28: a file whose indexing failed in the pass before on the summarizer's
\* reply or on the embedding of a chunk, and which has not changed since, is
\* handed to indexFile again when the walk of this pass reaches it.
C28_FailedFileRetried ==
    \A k \in retry \cap DOMAIN visit :
        visit[k].fault # "info" => Reindexed(visit[k])

\* C29: in the step in which indexFile fails, on the read of the file, the
\* summarizer's reply or the embedding of a chunk, on a file that had a
\* marker and a first chunk when indexFile was entered, every document the
\* store held for the file at that moment is still in the store, unchanged.
C29_FailedReindexKeepsIndex ==
    [][\A k \in DOMAIN visit :
          (/\ visit[k].outcome = "indexing"
           /\ visit'[k].outcome = "failed"
           /\ visit'[k].failure \in {"read", "reply", "embed"}
           /\ \E i, j \in 1..Len(oldDocs) :
                 /\ oldDocs[i].ID = ComputeID(k[1], k[2], -1)
                 /\ oldDocs[j].ID = ComputeID(k[1], k[2], 0))
              => \A i \in 1..Len(oldDocs) :
                    oldDocs[i].ID \in FileIDs(k[1], k[2]) =>
                        /\ oldDocs[i].ID \in DOMAIN store'
                        /\ store'[oldDocs[i].ID] = oldDocs[i]]_vars

====
